---- MODULE Spec2Model ----
(***************************************************************************)
(* Model of src/models.py: the builders of the multi-task sentence model   *)
(* (build_embeddings, build_model, build_modules, get_task_specific_params,*)
(* build_pair_sentence_module) and the forward dispatcher of               *)
(* MultiTaskModel.                                                         *)
(*                                                                         *)
(* Python values are modelled as follows.  A configuration (args) is a     *)
(* function from attribute names to values, so that hasattr is membership  *)
(* in its DOMAIN and "%s_%s" % (a, b) is string concatenation.  A module   *)
(* object is a record; the pair-attention modules carry an identity (the   *)
(* ordinal of their construction).  An exception is the name of its class  *)
(* in the field err of an operation's result ("" when it returns).         *)
(***************************************************************************)
EXTENDS Integers, Sequences, FiniteSets, TLC

VARIABLES pc, call, emb, params, build, model, metrics, last, ncalls

vars == <<pc, call, emb, params, build, model, metrics, last, ncalls>>

(***************************************************************************)
(* Bounds of the model.                                                    *)
(***************************************************************************)
\* longest task list handed to build_model
MaxTasks == 2
\* number of forward calls made on a built model
MaxCalls == 1

(***************************************************************************)
(* Widths fixed by the program.                                            *)
(***************************************************************************)
CoveDim == 600
ElmoCharDim == 512
ElmoFullDim == 1024

Truthy(v) == v # 0

(***************************************************************************)
(* Task descriptors (tasks.py).  cls is the class of the task object,      *)
(* scorer2 says whether the secondary scorer is configured (not None),     *)
(* n_classes = 0 says the task has no n_classes attribute.                 *)
(***************************************************************************)
ParentClass ==
    [ SSTTask                   |-> "SingleClassificationTask",
      CoLATask                  |-> "SingleClassificationTask",
      STSBTask                  |-> "PairRegressionTask",
      JOCITask                  |-> "PairOrdinalRegressionTask",
      SingleClassificationTask  |-> "Task",
      PairClassificationTask    |-> "Task",
      PairRegressionTask        |-> "Task",
      PairOrdinalRegressionTask |-> "Task",
      LanguageModelingTask      |-> "Task",
      SequenceGenerationTask    |-> "Task",
      RankingTask               |-> "Task",
      Task                      |-> "Task" ]

isinstance(task, classes) ==
    \/ task.cls \in classes
    \/ ParentClass[task.cls] \in classes
    \/ ParentClass[ParentClass[task.cls]] \in classes

TaskObj(n, c, s2, k) == [name |-> n, cls |-> c, scorer2 |-> s2, n_classes |-> k]

AllTasks ==
    { TaskObj("sst",   "SSTTask",                   FALSE, 2),
      TaskObj("cola",  "CoLATask",                  TRUE,  2),
      TaskObj("mnli",  "PairClassificationTask",    FALSE, 3),
      TaskObj("mrpc",  "PairClassificationTask",    TRUE,  2),
      TaskObj("sts-b", "STSBTask",                  TRUE,  0),
      TaskObj("joci",  "JOCITask",                  TRUE,  0),
      TaskObj("preg",  "PairRegressionTask",        FALSE, 0),
      TaskObj("pord",  "PairOrdinalRegressionTask", TRUE,  0),
      TaskObj("wiki",  "LanguageModelingTask",      FALSE, 0),
      TaskObj("mt",    "SequenceGenerationTask",    FALSE, 0),
      TaskObj("rank",  "RankingTask",               FALSE, 0),
      TaskObj("misc",  "Task",                      FALSE, 0) }

TaskNames == { t.name : t \in AllTasks }

SingleClasses == {"SingleClassificationTask"}
PairClasses == {"PairClassificationTask", "PairRegressionTask",
                "PairOrdinalRegressionTask"}
LMClasses == {"LanguageModelingTask"}
SeqGenClasses == {"SequenceGenerationTask"}
RankingClasses == {"RankingTask"}

\* the sequences without repetition over S of length at most n
RECURSIVE ListsOver(_, _)
ListsOver(S, n) ==
    IF n = 0 THEN { <<>> }
    ELSE LET shorter == ListsOver(S, n - 1)
         IN  shorter \cup
             { Append(l, t) : <<l, t>> \in
                 { p \in shorter \X S :
                     /\ Len(p[1]) = n - 1
                     /\ \A i \in 1..Len(p[1]) : p[1][i] # p[2] } }

(***************************************************************************)
(* Configurations.                                                         *)
(***************************************************************************)
EmbArgs ==
    [ word_embs : {"none", "glove", "scratch"},
      d_word : {3},
      cove : {0, 1},
      char_embs : {0, 1},
      d_char : {2},
      elmo : {0, 1},
      elmo_chars_only : {0, 1} ]

EncArgs ==
    [ sent_enc : {"bow", "rnn", "transformer", "cnn"},
      bidirectional : {0, 1},
      d_hid : {4, 6},
      skip_embs : {0, 1} ]

HeadArgs ==
    [ classifier : {"mlp"},
      classifier_hid_dim : {8},
      d_proj : {4},
      pair_attn : {0, 1},
      classifier_dropout : {2},
      shared_pair_attn : {0, 1} ]

\* width of the pretrained embedding matrix; 0 stands for None
PretrainedWidths == {0, 5}

DefaultEmb ==
    [ word_embs |-> "glove", d_word |-> 3, cove |-> 0, char_embs |-> 0,
      d_char |-> 2, elmo |-> 0, elmo_chars_only |-> 0 ]
DefaultEnc ==
    [ sent_enc |-> "rnn", bidirectional |-> 1, d_hid |-> 4, skip_embs |-> 0 ]
DefaultHead ==
    [ classifier |-> "mlp", classifier_hid_dim |-> 8, d_proj |-> 4,
      pair_attn |-> 1, classifier_dropout |-> 2, shared_pair_attn |-> 0 ]

NoOverride == [ x \in {} |-> 0 ]

MakeArgs(E, N, H, O) == { e @@ n @@ h @@ o : e \in E, n \in N, h \in H, o \in O }

DefaultArgs == DefaultEmb @@ DefaultEnc @@ DefaultHead

hasattr(obj, name) == name \in DOMAIN obj

(***************************************************************************)
(* build_embeddings(args, vocab, pretrained_embs).  cove_ok says whether   *)
(* "from cove import MTLSTM" succeeds in the running environment.          *)
(* cove_emb = "unbound" says the local variable was never assigned.        *)
(***************************************************************************)
WordWidth(args, pretrained) ==
    IF args.word_embs \in {"glove", "fastText"} /\ pretrained # 0
    THEN pretrained
    ELSE args.d_word

ElmoWidth(args) ==
    IF Truthy(args.elmo)
    THEN IF Truthy(args.elmo_chars_only) THEN ElmoCharDim ELSE ElmoFullDim
    ELSE 0

EmbResult(e, d, k, c) == [err |-> e, d_emb |-> d, keys |-> k, cove_emb |-> c]

build_embeddings(args, pretrained, cove_ok) ==
    LET words == args.word_embs # "none"
        d1 == IF words THEN WordWidth(args, pretrained) ELSE 0
        \* "ok": MTLSTM built; "import": ImportError caught; "name": the
        \* local 'embeddings' is read before assignment; "off": not requested
        cove == IF ~Truthy(args.cove) THEN "off"
                ELSE IF ~cove_ok THEN "import"
                ELSE IF ~words THEN "name"
                ELSE "ok"
        d2 == d1 + (IF cove = "ok" THEN CoveDim ELSE 0)
        d3 == d2 + (IF Truthy(args.char_embs) THEN args.d_char ELSE 0)
        d4 == d3 + ElmoWidth(args)
        keys == (IF words THEN {"words"} ELSE {})
                \cup (IF Truthy(args.char_embs) THEN {"chars"} ELSE {})
                \cup (IF Truthy(args.elmo) THEN {"elmo"} ELSE {})
    IN  IF cove = "name" THEN EmbResult("UnboundLocalError", 0, {}, "unbound")
        ELSE IF d4 = 0 THEN EmbResult("AssertionError", 0, {}, "unbound")
        ELSE IF cove = "import"
             THEN EmbResult("UnboundLocalError", 0, {}, "unbound")
        ELSE EmbResult("", d4, keys, IF cove = "ok" THEN "MTLSTM" ELSE "None")

(***************************************************************************)
(* get_task_specific_params(args, task): task is the task's name.          *)
(***************************************************************************)
\* faulty variant: the task-specific override is never consulted
get_task_attr_global(args, task, attr_name) == args[attr_name]

get_task_attr(args, task, attr_name) ==
    IF hasattr(args, task \o "_" \o attr_name)
    THEN args[task \o "_" \o attr_name]
    ELSE args[attr_name]

get_task_specific_params(args, task) ==
    [ cls_type |-> get_task_attr(args, task, "classifier"),
      d_hid |-> get_task_attr(args, task, "classifier_hid_dim"),
      d_proj |-> get_task_attr(args, task, "d_proj"),
      shared_pair_attn |-> args.shared_pair_attn,
      attn |-> IF Truthy(args.shared_pair_attn)
               THEN args.pair_attn
               ELSE get_task_attr(args, task, "pair_attn"),
      dropout |-> IF Truthy(args.shared_pair_attn)
                  THEN args.classifier_dropout
                  ELSE get_task_attr(args, task, "classifier_dropout") ]

(***************************************************************************)
(* Module objects.  attn is the identity of a pair-attention module: 0 is  *)
(* None, n > 0 the n-th AttnPairEncoder constructed; -1 where the module   *)
(* has no such part.                                                       *)
(***************************************************************************)
Module(kind, d_inp, d_out, attn) ==
    [kind |-> kind, d_inp |-> d_inp, d_out |-> d_out, attn |-> attn]

NoneObj == Module("None", 0, 0, 0)

setattr(attrs, name, value) ==
    [ n \in DOMAIN attrs \cup {name} |-> IF n = name THEN value ELSE attrs[n] ]

build_single_sentence_module(task, d_inp, tparams) ==
    Module("SingleClassifier", d_inp, task.n_classes, -1)

\* build_pair_attn(d_in, use_attn): the identity of the module it returns,
\* given the pair-attention modules constructed so far
build_pair_attn(use_attn, attn_log) ==
    IF ~Truthy(use_attn) THEN 0 ELSE Len(attn_log) + 1

AttnObj(id, d_inp) ==
    IF id = 0 THEN NoneObj ELSE Module("AttnPairEncoder", 2 * d_inp, d_inp, id)

\* faulty variant: the model is never asked whether it holds a pair_attn already
reuse_pair_attn_never(attrs, tparams) == FALSE

\* lines 250-255: whether the pair attention stored on the model is taken
reuse_pair_attn(attrs, tparams) ==
    Truthy(tparams.shared_pair_attn) /\ hasattr(attrs, "pair_attn")

\* build_pair_sentence_module(task, d_inp, model, vocab, params): the
\* state of the construction after the call, the module in field module
build_pair_sentence_module(task, d_inp, st, tparams) ==
    LET shared == Truthy(tparams.shared_pair_attn)
        reuse == reuse_pair_attn(st.attrs, tparams)
        pair_attn == IF reuse THEN st.attrs["pair_attn"].attn
                     ELSE build_pair_attn(tparams.attn, st.attn_log)
        log == IF ~reuse /\ pair_attn # 0
               THEN Append(st.attn_log, task.name) ELSE st.attn_log
        attrs == IF shared /\ ~reuse
                 THEN setattr(st.attrs, "pair_attn", AttnObj(pair_attn, d_inp))
                 ELSE st.attrs
        n_classes == IF task.n_classes # 0 THEN task.n_classes ELSE 1
    IN  [ attrs |-> attrs, attn_log |-> log, err |-> st.err,
          module |-> Module("PairClassifier", d_inp, n_classes, pair_attn) ]

build_lm(task, d_inp, args) == Module("Linear", d_inp, 0, -1)

\* faulty variant: the language-model head is registered like a classifier
hid2voc_attr_as_mdl(task) == task.name \o "_mdl"

\* line 190: the attribute the language-model head is registered under
hid2voc_attr(task) == task.name \o "_hid2voc"

build_decoder(task, d_inp, args) ==
    << Module("SentenceEncoder", 0, 0, -1), Module("Linear", 0, 0, -1) >>

(***************************************************************************)
(* build_modules(tasks, model, d_sent, vocab, embedder, args): one         *)
(* iteration of its loop, and the loop from task i on.  st is              *)
(* [attrs, attn_log, err]; the loop ends at the first exception.           *)
(***************************************************************************)
BuildState(attrs, log, err) == [attrs |-> attrs, attn_log |-> log, err |-> err]

build_modules_step(task, st, d_sent, args) ==
    LET tparams == get_task_specific_params(args, task.name)
    IN  IF isinstance(task, SingleClasses)
        THEN BuildState(setattr(st.attrs, task.name \o "_mdl",
                            build_single_sentence_module(task, d_sent, tparams)),
                        st.attn_log, "")
        ELSE IF isinstance(task, PairClasses)
        THEN LET r == build_pair_sentence_module(task, d_sent, st, tparams)
             IN  BuildState(setattr(r.attrs, task.name \o "_mdl", r.module),
                            r.attn_log, "")
        ELSE IF isinstance(task, LMClasses)
        THEN BuildState(setattr(st.attrs, hid2voc_attr(task),
                            build_lm(task, d_sent, args)),
                        st.attn_log, "")
        ELSE IF isinstance(task, SeqGenClasses)
        THEN LET dh == build_decoder(task, d_sent, args)
             IN  BuildState(setattr(setattr(st.attrs, task.name \o "_decoder", dh[1]),
                                    task.name \o "_hid2voc", dh[2]),
                            st.attn_log, "")
        ELSE IF isinstance(task, RankingClasses)
        THEN st
        ELSE BuildState(st.attrs, st.attn_log, "ValueError")

RECURSIVE build_modules(_, _, _, _, _)
build_modules(tasks, i, st, d_sent, args) ==
    IF i > Len(tasks) \/ st.err # "" THEN st
    ELSE build_modules(tasks, i + 1,
                       build_modules_step(tasks[i], st, d_sent, args),
                       d_sent, args)

(***************************************************************************)
(* build_model(args, vocab, pretrained_embs, tasks).                       *)
(***************************************************************************)
HasLM(tasks) == \E i \in 1..Len(tasks) : isinstance(tasks[i], LMClasses)

\* faulty variant: the width of an RNN encoder ignores its direction count
rnn_width_one_direction(args) == args.d_hid

\* line 83
rnn_width(args) == (1 + args.bidirectional) * args.d_hid

\* lines 44-88: the sentence encoder and d_sent before the skip connection
sent_encoder_choice(args, d_emb, tasks) ==
    IF HasLM(tasks)
    THEN IF args.sent_enc \notin {"rnn", "transformer"}
         THEN [err |-> "UnboundLocalError", kind |-> "", d_sent |-> args.d_hid]
         ELSE [err |-> "",
               kind |-> IF Truthy(args.bidirectional)
                        THEN "BiLMEncoder" ELSE "SentenceEncoder",
               d_sent |-> args.d_hid]
    ELSE IF args.sent_enc = "bow"
    THEN [err |-> "", kind |-> "BoWSentEncoder", d_sent |-> d_emb]
    ELSE IF args.sent_enc = "rnn"
    THEN [err |-> "", kind |-> "SentenceEncoder",
          d_sent |-> rnn_width(args)]
    ELSE IF args.sent_enc = "transformer"
    THEN [err |-> "", kind |-> "SentenceEncoder", d_sent |-> args.d_hid]
    ELSE [err |-> "UnboundLocalError", kind |-> "", d_sent |-> args.d_hid]

\* MultiTaskModel.__init__
MultiTaskModel(args, sent_encoder) ==
    [ sent_encoder |-> sent_encoder,
      combine_method |-> NoneObj,
      vocab |-> NoneObj ]

NoModel == [ x \in {} |-> NoneObj ]

BuildResult(err, e, d_sent, st) ==
    [ err |-> err, d_emb |-> e.d_emb, d_sent |-> d_sent,
      attn_log |-> st.attn_log, attrs |-> IF err = "" THEN st.attrs ELSE NoModel ]

build_model(args, pretrained, cove_ok, tasks) ==
    LET e == build_embeddings(args, pretrained, cove_ok)
        none == BuildState(NoModel, <<>>, "")
    IN  IF e.err # "" THEN BuildResult(e.err, e, 0, none)
        ELSE
        LET enc == sent_encoder_choice(args, e.d_emb, tasks)
            d_sent == enc.d_sent + args.skip_embs * e.d_emb
        IN  IF enc.err # "" THEN BuildResult(enc.err, e, d_sent, none)
            ELSE
            LET m == MultiTaskModel(args, Module(enc.kind, e.d_emb, d_sent, -1))
                st == build_modules(tasks, 1, BuildState(m, <<>>, ""), d_sent, args)
            IN  BuildResult(st.err, e, d_sent, st)

(***************************************************************************)
(* MultiTaskModel.forward(task, batch).  attrs are the attributes of the   *)
(* model, batch the set of the label fields the batch holds (its input     *)
(* fields are always there).  A result holds the exception (err), the keys *)
(* of the returned mapping (out), the loss function applied (loss), the    *)
(* number of calls of the shared encoder (enc) and the values handed to    *)
(* the task's primary and secondary scorers, in order (s1, s2).            *)
(***************************************************************************)
FwdResult(err, out, loss, enc, s1, s2) ==
    [err |-> err, out |-> out, loss |-> loss, enc |-> enc, s1 |-> s1, s2 |-> s2]

single_sentence_forward(attrs, batch, task) ==
    IF ~hasattr(attrs, task.name \o "_mdl")
    THEN FwdResult("AttributeError", {}, "", 1, <<>>, <<>>)
    ELSE IF "labels" \in batch
    THEN IF isinstance(task, {"CoLATask"})
         THEN IF ~task.scorer2
              THEN FwdResult("TypeError", {}, "cross_entropy", 1, <<>>, <<>>)
              ELSE FwdResult("", {"loss", "logits"}, "cross_entropy", 1,
                             <<"matthews_corrcoef">>, <<"logits,labels">>)
         ELSE FwdResult("", {"loss", "logits"}, "cross_entropy", 1,
                        <<"logits,labels">>,
                        IF task.scorer2 THEN <<"logits,labels">> ELSE <<>>)
    ELSE FwdResult("", {"logits"}, "", 1, <<>>, <<>>)

\* faulty variant: the STS-B branch is missing
pair_loss_no_stsb(task) ==
    IF isinstance(task, {"JOCITask"})
    THEN [loss |-> "mse_loss", s1 |-> "mean_squared_error", s2 |-> "spearmanr",
          s2_always |-> TRUE]
    ELSE [loss |-> "cross_entropy", s1 |-> "logits,labels", s2 |-> "logits,labels",
          s2_always |-> FALSE]

\* lines 358-376: the loss and the values handed to the scorers when the
\* batch has labels; s2_always says scorer2 is called without a None test
pair_loss(task) ==
    IF isinstance(task, {"JOCITask"})
    THEN [loss |-> "mse_loss", s1 |-> "mean_squared_error", s2 |-> "spearmanr",
          s2_always |-> TRUE]
    ELSE IF isinstance(task, {"STSBTask"})
    THEN [loss |-> "mse_loss", s1 |-> "pearsonr", s2 |-> "spearmanr",
          s2_always |-> TRUE]
    ELSE [loss |-> "cross_entropy", s1 |-> "logits,labels", s2 |-> "logits,labels",
          s2_always |-> FALSE]

pair_sentence_forward(attrs, batch, task) ==
    IF ~hasattr(attrs, task.name \o "_mdl")
    THEN FwdResult("AttributeError", {}, "", 2, <<>>, <<>>)
    ELSE IF "labels" \in batch
    THEN LET l == pair_loss(task)
         IN  IF l.s2_always /\ ~task.scorer2
             THEN FwdResult("TypeError", {}, l.loss, 2, <<l.s1>>, <<>>)
             ELSE FwdResult("", {"logits", "loss"}, l.loss, 2, <<l.s1>>,
                            IF task.scorer2 THEN <<l.s2>> ELSE <<>>)
    ELSE FwdResult("", {"logits"}, "", 2, <<>>, <<>>)

seq_gen_forward(attrs, batch, task) ==
    FwdResult("", {}, "", 1, <<>>, <<>>)

lm_forward(attrs, batch, task) ==
    \* both encoder variants (BiLMEncoder or not) are called once, look up
    \* the same head and read the targets; "targs" stands for the target
    \* fields the variant reads
    LET enc == 1
    IN  IF ~hasattr(attrs, task.name \o "_hid2voc")
        THEN FwdResult("AttributeError", {}, "", enc, <<>>, <<>>)
        ELSE IF "targs" \notin batch
        THEN FwdResult("KeyError", {}, "", enc, <<>>, <<>>)
        ELSE FwdResult("", {"logits", "loss"}, "cross_entropy", enc,
                       <<"loss">>, <<>>)

\* faulty variant: the ranking path is a stub that returns an empty mapping
ranking_forward_stub(attrs, batch, task) ==
    FwdResult("", {}, "", 0, <<>>, <<>>)

ranking_forward(attrs, batch, task) ==
    FwdResult("NotImplementedError", {}, "", 0, <<>>, <<>>)

forward(attrs, task, batch) ==
    IF isinstance(task, SingleClasses)
    THEN single_sentence_forward(attrs, batch, task)
    ELSE IF isinstance(task, PairClasses)
    THEN pair_sentence_forward(attrs, batch, task)
    ELSE IF isinstance(task, LMClasses)
    THEN lm_forward(attrs, batch, task)
    ELSE IF isinstance(task, SeqGenClasses)
    THEN seq_gen_forward(attrs, batch, task)
    ELSE IF isinstance(task, RankingClasses)
    THEN ranking_forward(attrs, batch, task)
    ELSE FwdResult("ValueError", {}, "", 0, <<>>, <<>>)

\* the scorers of a task are objects of the task: their update counts
update_scorers(m, task, r) ==
    [ m EXCEPT ![task.name] = [ s1 |-> @.s1 + Len(r.s1),
                                s2 |-> @.s2 + Len(r.s2) ] ]

Batches == SUBSET {"labels", "targs"}

(***************************************************************************)
(* The state machine.  pc: "init" before any call, then "built" / "failed" *)
(* after build_model, "emb" after a direct call of build_embeddings,       *)
(* "params" after a direct call of get_task_specific_params.  call holds   *)
(* the arguments of the builder call made.                                 *)
(***************************************************************************)
NoCall == [ args |-> DefaultArgs, pretrained |-> 0, cove_ok |-> TRUE,
            tasks |-> <<>>, task |-> "" ]
NoEmb == EmbResult("", 0, {}, "unbound")
NoParams == get_task_specific_params(DefaultArgs, "")
NoBuild == [ err |-> "", d_emb |-> 0, d_sent |-> 0, attn_log |-> <<>> ]
NoLast == [ task |-> TaskObj("", "Task", FALSE, 0), batch |-> {} ]
             @@ FwdResult("", {}, "", 0, <<>>, <<>>)

Init ==
    /\ pc = "init"
    /\ call = NoCall
    /\ emb = NoEmb
    /\ params = NoParams
    /\ build = NoBuild
    /\ model = NoModel
    /\ metrics = [ n \in TaskNames |-> [s1 |-> 0, s2 |-> 0] ]
    /\ last = NoLast
    /\ ncalls = 0

BuildEmbeddingsCall(A, P) ==
    /\ pc = "init"
    /\ \E args \in A, pretrained \in P, cove_ok \in BOOLEAN :
         /\ call' = [ NoCall EXCEPT !.args = args, !.pretrained = pretrained,
                                    !.cove_ok = cove_ok ]
         /\ emb' = build_embeddings(args, pretrained, cove_ok)
    /\ pc' = "emb"
    /\ UNCHANGED <<params, build, model, metrics, last, ncalls>>

GetTaskSpecificParamsCall(A, N) ==
    /\ pc = "init"
    /\ \E args \in A, task \in N :
         /\ call' = [ NoCall EXCEPT !.args = args, !.task = task ]
         /\ params' = get_task_specific_params(args, task)
    /\ pc' = "params"
    /\ UNCHANGED <<emb, build, model, metrics, last, ncalls>>

BuildModelCall(A, P, C, L) ==
    /\ pc = "init"
    /\ \E args \in A, pretrained \in P, cove_ok \in C, tasks \in L :
         LET r == build_model(args, pretrained, cove_ok, tasks)
         IN  /\ call' = [ NoCall EXCEPT !.args = args, !.pretrained = pretrained,
                                        !.cove_ok = cove_ok, !.tasks = tasks ]
             /\ emb' = build_embeddings(args, pretrained, cove_ok)
             /\ build' = [ err |-> r.err, d_emb |-> r.d_emb, d_sent |-> r.d_sent,
                           attn_log |-> r.attn_log ]
             /\ model' = r.attrs
             /\ pc' = IF r.err = "" THEN "built" ELSE "failed"
    /\ UNCHANGED <<params, metrics, last, ncalls>>

\* the tasks forward is called with: those the model was built for, and
\* the tasks no head can be built for
ForwardTasks ==
    { call.tasks[i] : i \in 1..Len(call.tasks) }
      \cup { t \in AllTasks :
               ~isinstance(t, SingleClasses \cup PairClasses \cup LMClasses
                                \cup SeqGenClasses) }

Forward ==
    /\ pc = "built"
    /\ ncalls < MaxCalls
    /\ \E task \in ForwardTasks, batch \in Batches :
         LET r == forward(model, task, batch)
         IN  /\ last' = [task |-> task, batch |-> batch] @@ r
             /\ metrics' = update_scorers(metrics, task, r)
    /\ ncalls' = ncalls + 1
    /\ UNCHANGED <<pc, call, emb, params, build, model>>

(***************************************************************************)
(* Specifications.                                                         *)
(***************************************************************************)
\* Spec: a model is built, then forward is called on it
FwdArgs ==
    MakeArgs({DefaultEmb},
             [sent_enc : {"rnn"}, bidirectional : {0, 1}, d_hid : {4},
              skip_embs : {0}],
             [classifier : {"mlp"}, classifier_hid_dim : {8}, d_proj : {4},
              pair_attn : {1}, classifier_dropout : {2},
              shared_pair_attn : {0, 1}],
             {NoOverride})

BuildModelFwd ==
    BuildModelCall(FwdArgs, {5}, {TRUE}, ListsOver(AllTasks, MaxTasks))

Next == BuildModelFwd \/ Forward

Spec == Init /\ [][Next]_vars

\* SpecEmb: build_embeddings on every embedding configuration
EmbCallArgs == MakeArgs(EmbArgs, {DefaultEnc}, {DefaultHead}, {NoOverride})

BuildEmbeddings == BuildEmbeddingsCall(EmbCallArgs, PretrainedWidths)

NextEmb == BuildEmbeddings

SpecEmb == Init /\ [][NextEmb]_vars

\* SpecBuild: build_model on every embedding and encoder configuration
BuildTasks ==
    { t \in AllTasks : t.name \in {"mnli", "wiki", "rank", "misc"} }

BuildArgs ==
    MakeArgs({ e \in EmbArgs : e.elmo_chars_only = 0 }, EncArgs,
             {DefaultHead}, {NoOverride})

BuildModelEnc ==
    BuildModelCall(BuildArgs, PretrainedWidths, BOOLEAN,
                   ListsOver(BuildTasks, MaxTasks))

NextBuild == BuildModelEnc

SpecBuild == Init /\ [][NextBuild]_vars

\* SpecHeads: build_model on every head configuration, with overrides
MaxHeadTasks == 3

PairAttnOverrides ==
    { a @@ b :
        a \in {NoOverride, [mnli_pair_attn |-> 0], [mnli_pair_attn |-> 1]},
        b \in {NoOverride, "sts-b_pair_attn" :> 0, "sts-b_pair_attn" :> 1} }

HeadCallArgs == MakeArgs({DefaultEmb}, {DefaultEnc}, HeadArgs, PairAttnOverrides)

HeadTasks ==
    { t \in AllTasks :
        t.name \in {"sst", "mnli", "mrpc", "sts-b", "joci", "wiki", "rank"} }

BuildModelHeads ==
    BuildModelCall(HeadCallArgs, {5}, {TRUE}, ListsOver(HeadTasks, MaxHeadTasks))

NextHeads == BuildModelHeads

SpecHeads == Init /\ [][NextHeads]_vars

\* SpecParams: get_task_specific_params with and without overrides
ParamOverrides ==
    { a @@ b @@ c @@ d @@ e :
        a \in {NoOverride, [mnli_classifier |-> "log_reg"]},
        b \in {NoOverride, [mnli_classifier_hid_dim |-> 16]},
        c \in {NoOverride, [mnli_d_proj |-> 5]},
        d \in {NoOverride, [mnli_pair_attn |-> 0], [mnli_pair_attn |-> 1]},
        e \in {NoOverride, [mnli_classifier_dropout |-> 3]} }

ParamArgs == MakeArgs({DefaultEmb}, {DefaultEnc}, HeadArgs, ParamOverrides)

GetTaskSpecificParams == GetTaskSpecificParamsCall(ParamArgs, {"mnli", "sst"})

NextParams == GetTaskSpecificParams

SpecParams == Init /\ [][NextParams]_vars

(***************************************************************************)
(* Vocabulary of the properties.                                           *)
(***************************************************************************)
Category(t) ==
    IF isinstance(t, SingleClasses) THEN "single"
    ELSE IF isinstance(t, PairClasses) THEN "pair"
    ELSE IF isinstance(t, LMClasses) THEN "lm"
    ELSE IF isinstance(t, SeqGenClasses) THEN "seqgen"
    ELSE IF isinstance(t, RankingClasses) THEN "ranking"
    ELSE "other"

BuiltTasks == { call.tasks[i] : i \in 1..Len(call.tasks) }

\* the attribute names a task's head may be registered under
HeadSlots(t) == { t.name \o "_mdl", t.name \o "_hid2voc", t.name \o "_decoder" }

\* the attribute names under which the task's category keeps its head
ExpectedHead(t) ==
    CASE Category(t) \in {"single", "pair"} -> { t.name \o "_mdl" }
      [] Category(t) = "lm" -> { t.name \o "_hid2voc" }
      [] Category(t) = "seqgen" -> { t.name \o "_decoder", t.name \o "_hid2voc" }
      [] OTHER -> {}

Called == pc = "built" /\ ncalls > 0
Returned == Called /\ last.err = ""

\* the batch carries the supervision of the task's category
HasLabels ==
    IF Category(last.task) \in {"lm", "seqgen"}
    THEN "targs" \in last.batch
    ELSE "labels" \in last.batch

(***************************************************************************)
(* C1.  After build_modules completes, every task of the list that is not  *)
(* a Ranking task has its head registered on the model under the name      *)
(* forward looks up for its category (<name>_mdl for single and pair       *)
(* tasks, <name>_hid2voc for language modeling), and no other; a Ranking   *)
(* task has none; and this holds after every forward call too.             *)
(***************************************************************************)
C1_HeadsRegistered ==
    pc = "built" =>
        \A t \in BuiltTasks :
            /\ HeadSlots(t) \cap DOMAIN model = ExpectedHead(t)
            /\ Category(t) = "ranking" <=> HeadSlots(t) \cap DOMAIN model = {}

C1_Witness ==
    /\ Returned
    /\ Len(call.tasks) = 2
    /\ { Category(t) : t \in BuiltTasks } = {"ranking", "lm"}
    /\ Category(last.task) = "lm"

(***************************************************************************)
(* C2.  Every forward call that returns, for a task of any category,       *)
(* returns a mapping with the key "logits".                                *)
(***************************************************************************)
C2_LogitsReturned == Returned => "logits" \in last.out

(***************************************************************************)
(* C3.  forward with a Ranking task ends in NotImplementedError, forward   *)
(* with a task of no recognized category in ValueError; in both cases no   *)
(* mapping is returned, the shared encoder is not called and no scorer of  *)
(* the task is ever updated.                                               *)
(***************************************************************************)
C3_UnimplementedFails ==
    /\ \A t \in AllTasks :
         Category(t) \in {"ranking", "other"} =>
             metrics[t.name] = [s1 |-> 0, s2 |-> 0]
    /\ Called /\ Category(last.task) \in {"ranking", "other"} =>
         /\ last.err = IF Category(last.task) = "ranking"
                       THEN "NotImplementedError" ELSE "ValueError"
         /\ last.out = {}
         /\ last.enc = 0
         /\ last.s1 = <<>> /\ last.s2 = <<>>

C3_Witness ==
    /\ Called
    /\ Category(last.task) = "ranking"
    /\ last.task \in BuiltTasks
    /\ "labels" \in last.batch

(***************************************************************************)
(* C4.  With shared_pair_attn, the pair-attention module of every pair     *)
(* head is the one instance stored on the model as pair_attn, built at     *)
(* most once, by the first pair task of the list.  Without it, the model   *)
(* has no pair_attn member and each pair task gets its own freshly built   *)
(* instance.                                                               *)
(***************************************************************************)
PairTasks == { t \in BuiltTasks : Category(t) = "pair" }
FirstPair ==
    call.tasks[CHOOSE i \in 1..Len(call.tasks) :
                 /\ Category(call.tasks[i]) = "pair"
                 /\ \A j \in 1..(i - 1) : Category(call.tasks[j]) # "pair"]
HeadAttn(t) == model[t.name \o "_mdl"].attn
SharedAttn == Truthy(call.args.shared_pair_attn)
\* the pair_attn option of a task: its override, else the global value
PairAttnOption(t) ==
    IF (t.name \o "_pair_attn") \in DOMAIN call.args
    THEN call.args[t.name \o "_pair_attn"]
    ELSE call.args["pair_attn"]

C4_SharedPart ==
    /\ PairTasks # {} =>
         /\ "pair_attn" \in DOMAIN model
         /\ \A t \in PairTasks : HeadAttn(t) = model["pair_attn"].attn
    /\ Len(build.attn_log) <= 1
    /\ Len(build.attn_log) = 1 => build.attn_log[1] = FirstPair.name

\* the claim as stated
C4_EveryPairTaskOwnInstance ==
    pc = "built" =>
        IF SharedAttn THEN C4_SharedPart
        ELSE /\ "pair_attn" \notin DOMAIN model
             /\ \A t \in PairTasks :
                  /\ HeadAttn(t) > 0
                  /\ build.attn_log[HeadAttn(t)] = t.name
             /\ \A t, u \in PairTasks : t # u => HeadAttn(t) # HeadAttn(u)

\* amended: without sharing, a pair task gets its own freshly built
\* instance when its pair_attn option is on, and none when it is off
C4_PairAttnSharing ==
    pc = "built" =>
        IF SharedAttn THEN C4_SharedPart
        ELSE /\ "pair_attn" \notin DOMAIN model
             /\ \A t \in PairTasks :
                  IF Truthy(PairAttnOption(t))
                  THEN /\ HeadAttn(t) > 0
                       /\ build.attn_log[HeadAttn(t)] = t.name
                  ELSE HeadAttn(t) = 0
             /\ \A t, u \in PairTasks :
                  t # u /\ HeadAttn(t) > 0 => HeadAttn(t) # HeadAttn(u)

C4_Witness ==
    /\ pc = "built"
    /\ SharedAttn
    /\ Len(call.tasks) = 3
    /\ Category(call.tasks[1]) = "pair"
    /\ Category(call.tasks[2]) # "pair"
    /\ Category(call.tasks[3]) = "pair"
    /\ model["pair_attn"].attn = 1
    /\ HeadAttn(call.tasks[3]) = 1

(***************************************************************************)
(* C5.  When build_model succeeds, the width d_sent handed to the head     *)
(* builder is d_emb for bow, (1 + bidirectional) * d_hid for rnn, d_hid    *)
(* for transformer, plus d_emb with skip_embs, also when the task list     *)
(* holds a language-modeling task.                                         *)
(***************************************************************************)
SkipWidth == IF Truthy(call.args.skip_embs) THEN emb.d_emb ELSE 0

EncoderWidth ==
    CASE call.args.sent_enc = "bow" -> emb.d_emb
      [] call.args.sent_enc = "rnn" ->
           (IF Truthy(call.args.bidirectional) THEN 2 ELSE 1) * call.args.d_hid
      [] call.args.sent_enc = "transformer" -> call.args.d_hid

HeadsGetWidth ==
    \A t \in BuiltTasks : \A n \in ExpectedHead(t) :
        Category(t) \in {"single", "pair", "lm"} => model[n].d_inp = build.d_sent

\* the claim as stated
C5_WidthAlsoWithLM ==
    pc = "built" => build.d_sent = EncoderWidth + SkipWidth /\ HeadsGetWidth

\* amended: the formula holds for task lists without a language-modeling
\* task; with one, d_sent is d_hid (plus d_emb with skip_embs) whatever
\* bidirectional is
C5_EncoderWidth ==
    pc = "built" =>
        /\ build.d_sent = (IF HasLM(call.tasks) THEN call.args.d_hid
                           ELSE EncoderWidth) + SkipWidth
        /\ HeadsGetWidth

C5_Witness ==
    /\ pc = "built"
    /\ HasLM(call.tasks)
    /\ call.args.sent_enc = "rnn"
    /\ Truthy(call.args.bidirectional)
    /\ Truthy(call.args.skip_embs)
    /\ build.d_sent = call.args.d_hid + emb.d_emb
    /\ Len(call.tasks) = 2

(***************************************************************************)
(* C6.  build_embeddings returns d_emb > 0, the sum of the widths of the   *)
(* enabled sources (word, character, contextual), whenever one of them is  *)
(* enabled, and fails with the configuration error when none is.           *)
(***************************************************************************)
AnySource ==
    \/ call.args.word_embs # "none"
    \/ Truthy(call.args.char_embs)
    \/ Truthy(call.args.elmo)

SourceWidths ==
    (IF call.args.word_embs = "none" THEN 0
     ELSE IF call.args.word_embs = "glove" /\ call.pretrained # 0
          THEN call.pretrained ELSE call.args.d_word)
    + (IF Truthy(call.args.char_embs) THEN call.args.d_char ELSE 0)
    + (IF ~Truthy(call.args.elmo) THEN 0
       ELSE IF Truthy(call.args.elmo_chars_only) THEN 512 ELSE 1024)

C6_WidthOrConfigError ==
    pc = "emb" =>
        IF AnySource
        THEN emb.err = "" /\ emb.d_emb > 0 /\ emb.d_emb = SourceWidths
        ELSE emb.err = "AssertionError"

(***************************************************************************)
(* C7.  When CoVe is requested and its import fails, build_embeddings      *)
(* still returns: no width is added for it and no enhancement is returned. *)
(***************************************************************************)
C7_CoveImportRecovered ==
    pc = "emb" /\ Truthy(call.args.cove) /\ ~call.cove_ok /\ AnySource =>
        /\ emb.err = ""
        /\ emb.cove_emb = "None"
        /\ emb.d_emb = SourceWidths

(***************************************************************************)
(* C8.  In a pair forward call with labels, the loss is mean squared error *)
(* exactly for the JOCI and STS-B tasks, whose primary scorer gets a       *)
(* correlation coefficient and whose secondary scorer a rank correlation;  *)
(* every other pair task gets cross-entropy, its primary scorer (logits,   *)
(* labels) and its secondary scorer the same only if configured.           *)
(***************************************************************************)
PairLabelled ==
    Returned /\ Category(last.task) = "pair" /\ "labels" \in last.batch

Regression2 == last.task.cls \in {"JOCITask", "STSBTask"}

C8_OtherPairs ==
    ~Regression2 =>
        /\ last.s1 = <<"logits,labels">>
        /\ last.s2 = IF last.task.scorer2 THEN <<"logits,labels">> ELSE <<>>

\* the claim as stated
C8_BothCorrelation ==
    PairLabelled =>
        /\ last.loss = IF Regression2 THEN "mse_loss" ELSE "cross_entropy"
        /\ Regression2 => last.s1 = <<"pearsonr">> /\ last.s2 = <<"spearmanr">>
        /\ C8_OtherPairs

\* amended: the primary scorer gets the Pearson correlation for STS-B and
\* the mean squared error for JOCI
C8_PairLoss ==
    PairLabelled =>
        /\ last.loss = IF Regression2 THEN "mse_loss" ELSE "cross_entropy"
        /\ Regression2 =>
             /\ last.s1 = IF last.task.cls = "STSBTask"
                          THEN <<"pearsonr">> ELSE <<"mean_squared_error">>
             /\ last.s2 = <<"spearmanr">>
        /\ C8_OtherPairs

C8_Witness ==
    /\ PairLabelled
    /\ last.task.cls = "JOCITask"
    /\ last.loss = "mse_loss"
    /\ last.s1 = <<"mean_squared_error">>
    /\ metrics["joci"] = [s1 |-> 1, s2 |-> 1]

(***************************************************************************)
(* C9.  Each per-task head hyperparameter is the task's override when the  *)
(* configuration has one and the global value otherwise, whatever          *)
(* shared_pair_attn is.                                                    *)
(***************************************************************************)
Resolved(attr) ==
    IF (call.task \o "_" \o attr) \in DOMAIN call.args
    THEN call.args[call.task \o "_" \o attr]
    ELSE call.args[attr]

C9_FirstThree ==
    /\ params.cls_type = Resolved("classifier")
    /\ params.d_hid = Resolved("classifier_hid_dim")
    /\ params.d_proj = Resolved("d_proj")

\* the claim as stated
C9_OverrideAlways ==
    pc = "params" =>
        /\ C9_FirstThree
        /\ params.attn = Resolved("pair_attn")
        /\ params.dropout = Resolved("classifier_dropout")

\* amended: pair_attn and classifier_dropout follow the override only
\* without shared_pair_attn; with it they are the global values
C9_OverrideUnlessShared ==
    pc = "params" =>
        /\ C9_FirstThree
        /\ params.attn = IF Truthy(call.args.shared_pair_attn)
                         THEN call.args["pair_attn"] ELSE Resolved("pair_attn")
        /\ params.dropout = IF Truthy(call.args.shared_pair_attn)
                            THEN call.args["classifier_dropout"]
                            ELSE Resolved("classifier_dropout")

C9_Witness ==
    /\ pc = "params"
    /\ call.task = "mnli"
    /\ Truthy(call.args.shared_pair_attn)
    /\ "mnli_pair_attn" \in DOMAIN call.args
    /\ "mnli_d_proj" \in DOMAIN call.args
    /\ call.args["mnli_pair_attn"] # call.args["pair_attn"]
    /\ params.attn = call.args["pair_attn"]
    /\ params.d_proj = call.args["mnli_d_proj"]

(***************************************************************************)
(* C10.  A forward call that returns updates the task's scorers (primary   *)
(* once, secondary at most once) and returns a loss if and only if the     *)
(* batch carries labels; without labels it updates no scorer and returns   *)
(* no loss.                                                                *)
(***************************************************************************)
C10_LossIffLabels ==
    Returned =>
        /\ HasLabels <=> "loss" \in last.out
        /\ HasLabels => Len(last.s1) = 1 /\ Len(last.s2) <= 1
        /\ ~HasLabels => last.s1 = <<>> /\ last.s2 = <<>>

====
